---- MODULE Spec2Model ----
(***************************************************************************)
(* Model of dsc/dsc_database.py, class ResultDB: ingestion of the per-step *)
(* metadata (load_parameters), the backward dependency walk                *)
(* (__get_sequence), the shape-grouped master tables (write_master_table), *)
(* output enrichment (cbind_output) and the Build driver.                  *)
(*                                                                         *)
(* Python containers are modelled in insertion order: an OrderedDict or a  *)
(* dict is a sequence of entries with distinct keys, a list is a sequence. *)
(* A raw key such as "2_b_a" is modelled by its parts after split('_'):    *)
(* [ord |-> 2, ret |-> "b", dep |-> "a"]; a two-part key has dep = NoDep.  *)
(* An exception leaving a method is modelled by the name of its type.      *)
(***************************************************************************)
EXTENDS Integers, Sequences, FiniteSets, TLC

VARIABLES
  src,         \* the metadata blocks of the source, in the order read
  artifacts,   \* return id -> what the last cbind_output found on disk
  data,        \* self.data
  master,      \* self.master
  last_block,  \* self.last_block
  groups,      \* self.groups
  pc,          \* position in Build ("idle": no call in progress)
  i,           \* index of the loop at lines 204 or 206
  err,         \* exception raised by the current or last Build call
  nbuild,      \* number of Build calls made
  saved,       \* what save_rds was last given
  saves,       \* number of save_rds calls
  snapshot     \* what each finished Build call left behind

vars == <<src, artifacts, data, master, last_block, groups, pc, i, err,
          nbuild, saved, saves, snapshot>>

\* Bounds of the model.
MaxRaw == 2
MaxBuilds == 2

Returns == {"a", "b"}
Tables == {"T1", "T2"}
Blocks == {"B1", "B2"}
AttrSets == {{"n"}, {"n", "step_id"}}
ArtifactKinds == {"absent", "x", "y"}

\* A key of two parts has no depends part.
NoDep == "-"
\* Python's None in the depends column (step ids start at 1).
NoneId == 0
NoErr == "none"

Meta == {"sequence_id", "sequence_name", "step_name", "exec"}
Reserved == {"step_id", "return", "depends"}

----------------------------------------------------------------------------
\* Generic helpers for Python lists and dicts.

Range(s) == {s[n] : n \in 1..Len(s)}

\* list.index(x): position of the first occurrence, 0 when there is none.
IndexOf(s, x) ==
  IF \E n \in 1..Len(s) : s[n] = x
  THEN CHOOSE n \in 1..Len(s) : s[n] = x /\ \A m \in 1..(n - 1) : s[m] # x
  ELSE 0

RECURSIVE SumLen(_)
SumLen(ss) == IF ss = <<>> THEN 0 ELSE Len(Head(ss)) + SumLen(Tail(ss))

RECURSIVE Flatten(_)
Flatten(ss) == IF ss = <<>> THEN <<>> ELSE Head(ss) \o Flatten(Tail(ss))

----------------------------------------------------------------------------
\* The raw source.  A metadata block written by the runner has a key
\* "<n>_<return>" or "<n>_<return>_<depends>" and a value with the fields
\* load_parameters reads: exec, the block part of step_name, whether
\* step_name is the last step of sequence_name, and further parameters.

RawBlocks(attrsets) ==
  [ret : Returns, dep : Returns \cup {NoDep},
   v : [exec : Tables, block : Blocks, last : BOOLEAN, attrs : attrsets]]

\* The code never looks into a return id, a table name or a block name, so
\* a source is enumerated up to renaming them: its first block uses the
\* first name of each kind.
FirstBlocks(attrsets) ==
  [ret : {"a"}, dep : Returns \cup {NoDep},
   v : [exec : {"T1"}, block : {"B1"}, last : BOOLEAN, attrs : attrsets]]

\* Lines 45-47: the OrderedDict read from the source; the n-th block written
\* has the insertion-order prefix n + shift.
ordered_load(blocks, shift) ==
  [n \in 1..Len(blocks) |->
     [key |-> [ord |-> n + shift, ret |-> blocks[n].ret,
               dep |-> blocks[n].dep],
      v |-> blocks[n].v]]

\* OrderedDict.update: an existing key keeps its position and takes the new
\* value, a new key is appended.
RECURSIVE Update(_, _)
Update(d, items) ==
  IF items = <<>> THEN d
  ELSE LET it == Head(items)
           at == IndexOf([n \in 1..Len(d) |-> d[n].key], it.key)
       IN Update(IF at = 0 THEN Append(d, it) ELSE [d EXCEPT ![at] = it],
                 Tail(items))

\* '_'.join(k.split('_')[1:])
Suffix(key) == <<key.ret, key.dep>>

DedupWholeKey(d) ==
  LET keep(n) == \A m \in 1..(n - 1) : d[m].key # d[n].key
      F[n \in 0..Len(d)] ==
        IF n = 0 THEN <<>>
        ELSE IF keep(n) THEN Append(F[n - 1], d[n]) ELSE F[n - 1]
  IN F[Len(d)]

\* Lines 50-56: of the blocks sharing a key suffix the first is kept.
Dedup(d) ==
  LET keep(n) == \A m \in 1..(n - 1) : Suffix(d[m].key) # Suffix(d[n].key)
      F[n \in 0..Len(d)] ==
        IF n = 0 THEN <<>>
        ELSE IF keep(n) THEN Append(F[n - 1], d[n]) ELSE F[n - 1]
  IN F[Len(d)]

----------------------------------------------------------------------------
\* load_parameters

\* The object's derived structures as one record.
NewDB == [data |-> <<>>, groups |-> <<>>, last_block |-> <<>>, err |-> NoErr]

TableIndex(D, table) == IndexOf([n \in 1..Len(D) |-> D[n].table], table)

\* Lines 34-42: the first key of the whole (deduplicated) dict whose return
\* part is x, counted from 1; 0 stands for the raise at line 41.
search_dependent_index(d, x) ==
  IndexOf([n \in 1..Len(d) |-> d[n].key.ret], x)

\* Lines 69-71: step_id, return and depends of a raw block are renamed.
Rename(keys) ==
  {IF k \in Reserved THEN "." \o k ELSE k : k \in keys}

\* v.keys() after the rename, without the meta keys (lines 76, 79-80).
AttrKeys(v) == Rename(v.attrs \cup Meta) \ Meta

\* Lines 84-86: the message has fields {1} {3} {2} {4} and format() is given
\* four arguments, so building it raises IndexError before the raise.
SchemaError == "IndexError"

\* Lines 62-65.
add_group(G, block_name, table) ==
  LET at == IndexOf([n \in 1..Len(G) |-> G[n].block], block_name)
      G1 == IF at = 0
            THEN Append(G, [block |-> block_name, tables |-> <<>>])
            ELSE G
      a1 == IF at = 0 THEN Len(G1) ELSE at
  IN IF table \in Range(G1[a1].tables) THEN G1
     ELSE [G1 EXCEPT ![a1].tables = Append(@, table)]

\* Lines 57-96 for the record at position idx (idx is Python's idx + 1).
IngestRecord(db, d, idx) ==
  LET k == d[idx].key
      v == d[idx].v
      table == v.exec
      G == add_group(db.groups, v.block, table)
      L == IF v.block \notin Range(db.last_block) /\ v.last
           THEN Append(db.last_block, v.block) ELSE db.last_block
      keys1 == AttrKeys(v)
      at0 == TableIndex(db.data, table)
      D1 == IF at0 = 0
            THEN Append(db.data,
                        [table |-> table, step_id |-> <<>>, ret |-> <<>>,
                         depends |-> <<>>, frame |-> FALSE,
                         cols |-> [c \in keys1 |-> <<>>], tbl |-> <<>>])
            ELSE db.data
      at == IF at0 = 0 THEN Len(D1) ELSE at0
      keys2 == DOMAIN D1[at].cols
      dep == IF k.dep # NoDep
             THEN search_dependent_index(d, k.dep) ELSE NoneId
      D2 == [D1 EXCEPT ![at].step_id = Append(@, idx),
                       ![at].ret = Append(@, k.ret)]
      D3 == [D2 EXCEPT ![at].depends = Append(@, dep),
                       ![at].cols = [c \in DOMAIN @ |-> Append(@[c], idx)]]
      base == [db EXCEPT !.groups = G, !.last_block = L]
  IN IF at0 # 0 /\ keys1 # keys2
       THEN [base EXCEPT !.err = SchemaError]
     ELSE IF D1[at].frame
       \* Line 87 on a table Build has already converted (line 211): the
       \* column is a pandas Series, whose append takes a Series or a list
       \* of Series and raises TypeError for an int.
       THEN [base EXCEPT !.err = "TypeError"]
     ELSE IF k.dep # NoDep /\ dep = 0
       THEN [base EXCEPT !.data = D2, !.err = "ResultDBError"]
     ELSE [base EXCEPT !.data = D3]

RECURSIVE ingest(_, _, _)
ingest(db, d, idx) ==
  IF idx > Len(d) \/ db.err # NoErr THEN db
  ELSE ingest(IngestRecord(db, d, idx), d, idx + 1)

\* Lines 33-96 on the object state db and the merged raw source.
load_parameters(db, raw) == ingest([db EXCEPT !.err = NoErr], Dedup(raw), 1)

----------------------------------------------------------------------------
\* __find_block, __get_sequence, write_master_table

\* Lines 98-102: the first block of groups that lists the table; "" stands
\* for the raise at line 102.
find_block(G, step) ==
  LET hits == {n \in 1..Len(G) : step \in Range(G[n].tables)}
  IN IF hits = {} THEN ""
     ELSE G[CHOOSE n \in hits : \A m \in hits : n <= m].block

\* Number of records held in the tables of the store.
NumRecords(D) == SumLen([n \in 1..Len(D) |-> D[n].step_id])

\* Lines 104-121.  fuel counts the recursive calls still allowed: a walk of
\* more calls than there are records revisits a record, so in Python it
\* recurses until the interpreter raises RecursionError.  Line 107 raises
\* IndexError when the depends column is shorter than step_idx.
RECURSIVE get_sequence(_, _, _, _, _, _)
get_sequence(D, step, step_id, step_idx, res, fuel) ==
  LET res1 == Append(res, [table |-> step, id |-> step_id])
      t == D[TableIndex(D, step)]
      depend_id == t.depends[step_idx]
      owners == {n \in 1..Len(D) : depend_id \in Range(D[n].step_id)}
      k == CHOOSE n \in owners : \A m \in owners : n <= m
  IN IF step_idx > Len(t.depends)
       THEN [res |-> res1, err |-> "IndexError"]
     ELSE IF depend_id = NoneId THEN [res |-> res1, err |-> NoErr]
     ELSE IF owners = {} THEN [res |-> res1, err |-> "ResultDBError"]
     ELSE IF fuel = 0 THEN [res |-> res1, err |-> "RecursionError"]
     ELSE get_sequence(D, D[k].table, depend_id,
                       IndexOf(D[k].step_id, depend_id), res1, fuel - 1)

reverse_noop(s) == s

\* Line 138: list.reverse().
reverse(s) == [n \in 1..Len(s) |-> s[Len(s) + 1 - n]]

\* Lines 136-138: the chain of the record at position step_idx of table step,
\* earliest step first.
resolve_chain(D, step, step_idx) ==
  LET r == get_sequence(D, step, D[TableIndex(D, step)].step_id[step_idx],
                        step_idx, <<>>, NumRecords(D))
  IN [res |-> reverse(r.res), err |-> r.err]

\* The (table, position) pairs lines 134-135 iterate over, in order.
BlockRecords(D, G, block) ==
  LET gi == IndexOf([n \in 1..Len(G) |-> G[n].block], block)
      steps == G[gi].tables
  IN Flatten([n \in 1..Len(steps) |->
                [m \in 1..Len(D[TableIndex(D, steps[n])].step_id) |->
                   [step |-> steps[n], idx |-> m]]])

\* Line 142.
shape_key(G, item) == [n \in 1..Len(item) |-> find_block(G, item[n].table)]

add_chain_overwrite(shapes, key, item) ==
  LET at == IndexOf([n \in 1..Len(shapes) |-> shapes[n].key], key)
  IN IF at = 0 THEN Append(shapes, [key |-> key, rows |-> <<item>>])
     ELSE [shapes EXCEPT ![at].rows = <<item>>]

\* Lines 143-145: the chain joins the group of its key, a new key opens a
\* group.
add_chain(shapes, key, item) ==
  LET at == IndexOf([n \in 1..Len(shapes) |-> shapes[n].key], key)
  IN IF at = 0 THEN Append(shapes, [key |-> key, rows |-> <<item>>])
     ELSE [shapes EXCEPT ![at].rows = Append(@, item)]

\* Lines 133-149.  The result is the list of shape groups in the order the
\* frames are concatenated side by side; each group has its key (the header
\* is <key[p]>_name, <key[p]>_id for each p) and its rows (the chains).
write_master_table(D, G, block) ==
  LET recs == BlockRecords(D, G, block)
      chains == [n \in 1..Len(recs) |->
                   resolve_chain(D, recs[n].step, recs[n].idx)]
      bad == {n \in 1..Len(recs) : chains[n].err # NoErr}
      nokey == {n \in 1..Len(recs) :
                  "" \in Range(shape_key(G, chains[n].res))}
      F[n \in 0..Len(recs)] ==
        IF n = 0 THEN <<>>
        ELSE add_chain(F[n - 1], shape_key(G, chains[n].res), chains[n].res)
  IN IF bad # {}
       THEN [err |-> chains[CHOOSE n \in bad : \A m \in bad : n <= m].err,
             shapes |-> <<>>]
     ELSE IF nokey # {} THEN [err |-> "ResultDBError", shapes |-> <<>>]
     ELSE [err |-> NoErr, shapes |-> F[Len(recs)]]

----------------------------------------------------------------------------
\* cbind_output

\* Number of rows of a master table: the side-by-side concatenation at line
\* 149 is as long as its longest group, shorter groups are padded with NaN.
NumRows(shapes) ==
  LET lens == {Len(shapes[g].rows) : g \in 1..Len(shapes)}
  IN IF lens = {} THEN 0 ELSE CHOOSE n \in lens : \A m \in lens : m <= n

\* Lines 174-200.  art maps a return id to the column names its artifact
\* yields ("absent": no file).  A master table has a column <name>_name for
\* every occurrence of name in the keys of its groups:
\*   no occurrence: table[...] raises KeyError;
\*   several: table[...] is a frame, zip() walks its column labels and
\*     self.data['<name>_name'] raises KeyError;
\*   one: the column is walked row by row, a NaN padding row raises KeyError
\*     at self.data[step].
cbind_output(D, name, shapes, art) ==
  LET header == Flatten([g \in 1..Len(shapes) |-> shapes[g].key])
      occ == {q \in 1..Len(header) : header[q] = name}
      g == CHOOSE h \in 1..Len(shapes) : name \in Range(shapes[h].key)
      p == IndexOf(shapes[g].key, name)
      rows == shapes[g].rows
      nrows == NumRows(shapes)
      ret(r) == LET t == D[TableIndex(D, rows[r][p].table)]
                IN t.ret[IndexOf(t.step_id, rows[r][p].id)]
      F[r \in 0..nrows] ==
        IF r = 0 THEN [data |-> <<>>, colnames |-> "", err |-> NoErr]
        ELSE LET a == F[r - 1]
             IN IF a.err # NoErr THEN a
                ELSE IF r > Len(rows) THEN [a EXCEPT !.err = "KeyError"]
                ELSE IF art[ret(r)] = "absent" THEN a
                ELSE IF a.colnames # "" /\ a.colnames # art[ret(r)]
                  THEN [a EXCEPT !.err = "ResultDBError"]
                ELSE [a EXCEPT !.colnames = art[ret(r)],
                               !.data = Append(@, [id |-> rows[r][p].id,
                                                   cols |-> art[ret(r)]])]
      end == F[nrows]
      \* Line 199-200: outer merge on <name>_id.
      merged ==
        Flatten([r \in 1..nrows |->
          LET Same(e) == e.id = rows[r][p].id
              m == SelectSeq(end.data, Same)
          IN IF m = <<>>
             THEN <<[row |-> r, id |-> rows[r][p].id, enr |-> "null"]>>
             ELSE [q \in 1..Len(m) |->
                     [row |-> r, id |-> rows[r][p].id, enr |-> m[q].cols]]])
  IN IF Cardinality(occ) # 1 THEN [err |-> "KeyError", out |-> <<>>]
     ELSE IF end.err # NoErr THEN [err |-> end.err, out |-> <<>>]
     \* Line 199: [..] + colnames with colnames still None.
     ELSE IF end.colnames = "" THEN [err |-> "TypeError", out |-> <<>>]
     ELSE [err |-> NoErr, out |-> merged]

----------------------------------------------------------------------------
\* Build

MasterName(block) == "master_" \o block

\* Line 207: item.split('_', 1)[1].
BlockOfItem(name) == CHOOSE b \in Blocks : MasterName(b) = name

\* self.master[name] = table (lines 205, 207).
set_master(M, name, entry) ==
  LET at == IndexOf([n \in 1..Len(M) |-> M[n].name], name)
  IN IF at = 0 THEN Append(M, entry) ELSE [M EXCEPT ![at] = entry]

\* Lines 209-211: every table becomes a frame; pandas raises ValueError for
\* columns of different lengths.
convert(D) ==
  LET ragged(t) == ~t.frame /\
                   (\/ Len(t.ret) # Len(t.step_id)
                    \/ Len(t.depends) # Len(t.step_id)
                    \/ \E c \in DOMAIN t.cols : Len(t.cols[c]) # Len(t.step_id))
  IN IF \E n \in 1..Len(D) : ragged(D[n])
     THEN [err |-> "ValueError", data |-> D]
     ELSE [err |-> NoErr, data |-> [n \in 1..Len(D) |-> [D[n] EXCEPT !.frame = TRUE]]]

\* Line 212: self.data.update(self.master).
RECURSIVE update_master(_, _)
update_master(D, M) ==
  IF M = <<>> THEN D
  ELSE LET e == [table |-> Head(M).name, step_id |-> <<>>, ret |-> <<>>,
                 depends |-> <<>>, frame |-> TRUE, cols |-> <<>>,
                 tbl |-> <<Head(M)>>]
           at == TableIndex(D, Head(M).name)
       IN update_master(IF at = 0 THEN Append(D, e) ELSE [D EXCEPT ![at] = e],
                        Tail(M))

propagate_swallow(e, next) == next

\* Build has no try/except: an exception raised by a stage ends the call,
\* otherwise control goes on to the next statement.
propagate(e, next) == IF e # NoErr THEN "idle" ELSE next

\* The loop at 206-207 is empty when there is no master table.
after_master(M) == IF Len(M) > 0 THEN "cbind" ELSE "convert"

\* The loop at 204-205 is empty when there is no terminal block.
after_load(L, M) == IF Len(L) > 0 THEN "master" ELSE after_master(M)

\* What a finished Build call leaves behind.
Outcome(ok, D, G, L, M) ==
  [ok |-> ok, data |-> D, groups |-> G, last_block |-> L, master |-> M]

Finish(p, D, G, L, M) ==
  IF p = "idle" THEN Append(snapshot, Outcome(FALSE, D, G, L, M)) ELSE snapshot

InitObject ==
  /\ artifacts = [r \in Returns |-> "absent"]
  /\ data = <<>>
  /\ master = <<>>
  /\ last_block = <<>>
  /\ groups = <<>>
  /\ pc = "idle"
  /\ i = 1
  /\ err = NoErr
  /\ nbuild = 0
  /\ saved = [exists |-> FALSE, db |-> <<>>]
  /\ saves = 0
  /\ snapshot = <<>>

InitSource(maxlen, attrsets) ==
  \/ src = <<>>
  \/ \E len \in 1..maxlen :
     \E first \in FirstBlocks(attrsets) :
     \E rest \in [1..(len - 1) -> RawBlocks(attrsets)] :
        src = <<first>> \o rest

\* Lines 22-31 and a source of at most MaxRaw blocks.
Init == InitSource(MaxRaw, AttrSets) /\ InitObject

\* The same with one attribute key set for all blocks.
InitUniform == InitSource(MaxRaw, {{"n"}}) /\ InitObject

\* Line 203: Build is called and runs load_parameters.
Build_load_parameters ==
  /\ pc = "idle"
  /\ nbuild < MaxBuilds
  /\ \E db \in {load_parameters([data |-> data, groups |-> groups,
                                 last_block |-> last_block, err |-> NoErr],
                                ordered_load(src, 0))} :
     \E p \in {propagate(db.err, after_load(db.last_block, master))} :
        /\ data' = db.data
        /\ groups' = db.groups
        /\ last_block' = db.last_block
        /\ err' = db.err
        /\ pc' = p
        /\ snapshot' = Finish(p, db.data, db.groups, db.last_block, master)
  /\ nbuild' = nbuild + 1
  /\ i' = 1
  /\ UNCHANGED <<src, artifacts, master, saved, saves>>

\* Lines 204-205, one iteration.
Build_write_master_table ==
  /\ pc = "master"
  /\ \E block \in {last_block[i]} :
     \E r \in {write_master_table(data, groups, block)} :
     \E M \in {IF r.err # NoErr THEN master
               ELSE set_master(master, MasterName(block),
                               [name |-> MasterName(block),
                                shapes |-> r.shapes,
                                bound |-> FALSE, out |-> <<>>])} :
     \E p \in {propagate(r.err, IF i < Len(last_block) THEN "master"
                                ELSE after_master(M))} :
        /\ master' = M
        /\ err' = IF err # NoErr THEN err ELSE r.err
        /\ pc' = p
        /\ i' = IF p = "master" THEN i + 1 ELSE 1
        /\ snapshot' = Finish(p, data, groups, last_block, M)
  /\ UNCHANGED <<src, artifacts, data, last_block, groups, nbuild, saved,
                 saves>>

\* The artifact stores cbind_output may find: an artifact is the output file
\* of a recorded step, and its column names are "x" or, when they differ
\* from those of another artifact, "y".
ArtifactStores(D) ==
  LET made == UNION {Range(D[n].ret) : n \in 1..Len(D)}
  IN {f \in [Returns -> ArtifactKinds] :
        /\ \A r \in Returns \ made : f[r] = "absent"
        /\ \A r \in Returns : f[r] = "y" => \E q \in Returns : f[q] = "x"}

\* Lines 206-207, one iteration; the artifact files present are the
\* environment's choice.
Build_cbind_output ==
  /\ pc = "cbind"
  /\ \E art \in ArtifactStores(data) :
     \E r \in {cbind_output(data, BlockOfItem(master[i].name),
                            master[i].shapes, art)} :
     \E M \in {IF r.err # NoErr THEN master
               ELSE [master EXCEPT ![i].bound = TRUE, ![i].out = r.out]} :
     \E p \in {propagate(r.err, IF i < Len(master) THEN "cbind"
                                ELSE "convert")} :
        /\ artifacts' = art
        /\ master' = M
        /\ err' = IF err # NoErr THEN err ELSE r.err
        /\ pc' = p
        /\ i' = IF p = "cbind" THEN i + 1 ELSE 1
        /\ snapshot' = Finish(p, data, groups, last_block, M)
  /\ UNCHANGED <<src, data, last_block, groups, nbuild, saved, saves>>

\* Lines 208-212.
Build_convert ==
  /\ pc = "convert"
  /\ \E r \in {convert(data)} :
     \E D \in {IF r.err # NoErr THEN data
               ELSE update_master(r.data, master)} :
     \E p \in {propagate(r.err, "save")} :
        /\ data' = D
        /\ err' = IF err # NoErr THEN err ELSE r.err
        /\ pc' = p
        /\ snapshot' = Finish(p, D, groups, last_block, master)
  /\ UNCHANGED <<src, artifacts, master, last_block, groups, i, nbuild,
                 saved, saves>>

\* Line 213.
Build_save_rds ==
  /\ pc = "save"
  /\ saved' = [exists |-> TRUE, db |-> data]
  /\ saves' = saves + 1
  /\ pc' = "idle"
  /\ snapshot' = Append(snapshot,
                        Outcome(err = NoErr, data, groups, last_block, master))
  /\ UNCHANGED <<src, artifacts, data, master, last_block, groups, i, err,
                 nbuild>>

Next ==
  \/ Build_load_parameters
  \/ Build_write_master_table
  \/ Build_cbind_output
  \/ Build_convert
  \/ Build_save_rds

Spec == Init /\ [][Next]_vars

\* Build on sources whose blocks all have the same attribute keys.
SpecUniform == InitUniform /\ [][Next]_vars

\* The first two stages of Build on the same sources: load_parameters and
\* the write_master_table calls.
NextPivot ==
  \/ Build_load_parameters
  \/ Build_write_master_table

SpecPivot == InitUniform /\ [][NextPivot]_vars

----------------------------------------------------------------------------
\* Properties.

\* Inside a Build call, after load_parameters returned and before the
\* tables are converted to frames.
LoadedOK == pc \in {"master", "cbind", "convert"}

\* The (table position, row position) pairs of the records of a store.
Records(D) ==
  UNION {{<<n, m>> : m \in 1..Len(D[n].step_id)} : n \in 1..Len(D)}

\* depends of the step a chain element names.
DependsOf(D, e) ==
  LET t == D[TableIndex(D, e.table)]
  IN t.depends[IndexOf(t.step_id, e.id)]

ChainOf(D, rec) == resolve_chain(D, D[rec[1]].table, rec[2])

\* C1: after an ingestion without error, the backward walk from every
\* record of the store ends, after finitely many hops, at a step whose
\* depends is None.
C1_WalkTerminates ==
  LoadedOK =>
    \A rec \in Records(data) : \A c \in {ChainOf(data, rec)} :
      /\ c.err = NoErr
      /\ DependsOf(data, c.res[1]) = NoneId

\* C2: after load_parameters no table is listed in the groups of two
\* different blocks.
C2_OneBlockPerTable ==
  nbuild >= 1 =>
    \A g1, g2 \in 1..Len(groups) :
      g1 # g2 => Range(groups[g1].tables) \cap Range(groups[g2].tables) = {}

\* A master table of one shape group in which the block occurs once.
OneShape(item) ==
  /\ Len(item.shapes) = 1
  /\ Cardinality({q \in 1..Len(item.shapes[1].key) :
                    item.shapes[1].key[q] = BlockOfItem(item.name)}) = 1

\* All artifacts present have the same column names.
SameColumns(art) == Cardinality({art[r] : r \in Returns} \ {"absent"}) <= 1

\* C3: cbind_output never fails for missing artifacts: whatever subset of
\* the rows has an artifact (the empty one included), the call on a master
\* table completes and returns as many rows as it was given.
C3_MissingArtifactSkipped ==
  [][(pc = "cbind" /\ nbuild = 1 /\ OneShape(master[i])
        /\ SameColumns(artifacts'))
       => /\ err' = NoErr
          /\ master'[i].bound
          /\ Len(master'[i].out) = NumRows(master[i].shapes)]_vars

\* Some record's attribute keys differ from those first seen for its table,
\* and no earlier record fails on its dependency.
MismatchFirst(d) ==
  \E n \in 1..Len(d) :
    /\ \E m \in 1..(n - 1) :
         /\ d[m].v.exec = d[n].v.exec
         /\ \A q \in 1..(m - 1) : d[q].v.exec # d[n].v.exec
         /\ AttrKeys(d[m].v) # AttrKeys(d[n].v)
    /\ \A j \in 1..(n - 1) :
         \/ d[j].key.dep = NoDep
         \/ \E q \in 1..Len(d) : d[q].key.ret = d[j].key.dep

\* C4: a record whose attribute key set differs from the first-seen key set
\* of its table makes load_parameters fail with ResultDBError, and after a
\* successful ingestion every column of a table has a value from every
\* record of the table.
C4_SchemaMismatchError ==
  nbuild = 1 =>
    /\ MismatchFirst(Dedup(ordered_load(src, 0))) => err = "ResultDBError"
    /\ LoadedOK =>
         \A n \in 1..Len(data) : \A c \in DOMAIN data[n].cols :
           data[n].cols[c] = data[n].step_id

\* Every table is a frame and every terminal block has its enriched master
\* table in the database.
Complete(D) ==
  /\ \A n \in 1..Len(D) : D[n].frame
  /\ \A b \in Range(last_block) :
       \E n \in 1..Len(D) :
         D[n].table = MasterName(b) /\ D[n].tbl # <<>> /\ D[n].tbl[1].bound

\* C5: save_rds is called only by a Build in which no stage raised, after
\* all tables were converted and all master tables enriched, and with the
\* complete database; a step that raises persists nothing.
C5_AllOrNothing ==
  [][/\ saves' # saves =>
          /\ pc = "save" /\ err = NoErr /\ err' = NoErr
          /\ Complete(data)
          /\ saved' = [exists |-> TRUE, db |-> data]
     /\ saves' = saves => saved' = saved]_vars

\* A Build call failed after master tables had been written, and nothing
\* was persisted.
C5_Witness ==
  pc = "idle" /\ nbuild >= 1 /\ err # NoErr /\ Len(master) > 0 /\ saves = 0

\* C6: a second Build on the same object with the same source succeeds like
\* the first and leaves the same data, groups, last_block and master.
C6_RebuildFromScratch ==
  (Len(snapshot) >= 2 /\ snapshot[1].ok) => snapshot[2] = snapshot[1]

\* step_id, return and depends of every table of a store.
RecordStore(D) ==
  LET IsTable(t) == t.tbl = <<>>
      T == SelectSeq(D, IsTable)
  IN [n \in 1..Len(T) |->
        [table |-> T[n].table, step_id |-> T[n].step_id, ret |-> T[n].ret,
         depends |-> T[n].depends]]

\* Positions of the blocks that are the first with their key suffix.
Firsts(d) ==
  {n \in 1..Len(d) :
     \A m \in 1..(n - 1) : Suffix(d[m].key) # Suffix(d[n].key)}

C8_DependsEarlier ==
  LoadedOK =>
    \A rec \in Records(data) :
      \/ data[rec[1]].depends[rec[2]] = NoneId
      \/ data[rec[1]].depends[rec[2]] < data[rec[1]].step_id[rec[2]]

\* C9: a chain whose walk completes ends with the record it was asked for,
\* starts with a step without dependency, and each element is the step its
\* successor depends on, held in the table the element names.
C9_ChainOrdered ==
  LoadedOK =>
    \A rec \in Records(data) : \A c \in {ChainOf(data, rec)} :
      LET t == data[rec[1]]
      IN c.err = NoErr =>
           /\ c.res[Len(c.res)] = [table |-> t.table, id |-> t.step_id[rec[2]]]
           /\ DependsOf(data, c.res[1]) = NoneId
           /\ \A q \in 1..(Len(c.res) - 1) :
                /\ DependsOf(data, c.res[q + 1]) = c.res[q].id
                /\ c.res[q].id \in
                     Range(data[TableIndex(data, c.res[q].table)].step_id)

\* A completed chain of at least two steps.
C9_Witness ==
  /\ LoadedOK
  /\ \E rec \in Records(data) : \E c \in {ChainOf(data, rec)} :
       c.err = NoErr /\ Len(c.res) >= 2

\* The shape groups of a master table of block, against the store.
Partitioned(shapes, block) ==
  \A recs \in {BlockRecords(data, groups, block)} :
  \A chain \in {Flatten([n \in 1..Len(recs) |->
                   <<resolve_chain(data, recs[n].step, recs[n].idx).res>>])} :
  LET places == UNION {{<<g, r>> : r \in 1..Len(shapes[g].rows)} :
                       g \in 1..Len(shapes)}
      owners(table) == {groups[g].block : g \in
                          {h \in 1..Len(groups) :
                             table \in Range(groups[h].tables)}}
  IN /\ SumLen([g \in 1..Len(shapes) |-> shapes[g].rows]) = Len(recs)
     /\ \A n \in 1..Len(recs) :
          Cardinality({pl \in places :
                         shapes[pl[1]].rows[pl[2]] = chain[n]})
            = Cardinality({m \in 1..Len(recs) : chain[m] = chain[n]})
     /\ \A g \in 1..Len(shapes) : \A r \in 1..Len(shapes[g].rows) :
          /\ Len(shapes[g].rows[r]) = Len(shapes[g].key)
          /\ \A q \in 1..Len(shapes[g].key) :
               shapes[g].key[q] \in owners(shapes[g].rows[r][q].table)
     /\ \A g, h \in 1..Len(shapes) :
          g # h => shapes[g].key # shapes[h].key

\* C10: the shape groups of every master table hold one chain per record of
\* the block's tables, each chain once, under the key of the owning blocks
\* of its tables, and no two groups share a key.
C10_ShapePartition ==
  pc = "cbind" =>
    \A n \in 1..Len(master) :
      Partitioned(master[n].shapes, BlockOfItem(master[n].name))

\* A master table with chains of two shapes.
C10_Witness ==
  pc = "cbind" /\ \E n \in 1..Len(master) : Len(master[n].shapes) >= 2

====
